---- MODULE Spec2Model ----
(***************************************************************************)
(* A model of scylla-artifacts.py: the avocado test ScyllaArtifactSanity,  *)
(* its installer variants, the package backends with the scriptlet-failure *)
(* inspector, and the service lifecycle manager.                           *)
(*                                                                         *)
(* One test process is modelled at a time (avocado runs setUp and one test *)
(* method per process); the host's files outlive the process.  What the    *)
(* host answers (command results, unit status, port state, detected        *)
(* distribution) is an input of the step that asks for it.                 *)
(***************************************************************************)
EXTENDS Integers, Sequences, FiniteSets, TLC

(* ---------------------------------------------------------------- bounds *)

\* Polls a bounded wait (wait.wait_for) makes before its timeout elapses.  The
\* code's waits admit timeout/step polls (900/5, 300/30, 30/5).
MaxPolls == 3

\* Words in the output of one command, for the inspector's own specification.
MaxOut == 5

\* Reports of the housekeeping identifier the model follows on one host.
MaxReports == 2

(* ------------------------------------------------- command output, as words *)

\* A command's output (stdout + stderr) is a sequence of words; consecutive
\* words are separated by blanks, and NL is a line break.  MARKER is the literal
\* text the failure pattern begins with, kept as one item.
MARKER == "scriptlet failure in rpm package"

NL == "NL"

ScyllaWords == {"scylla-foo", "scylla-bar"}

Words == {MARKER, NL, "warning"} \cup ScyllaWords

\* The pattern 'scriptlet failure in rpm package scylla.*' matches at word i:
\* the literal text, a blank, and a word that begins with "scylla".
MatchAt(out, i) ==
    /\ i + 1 <= Len(out)
    /\ out[i] = MARKER
    /\ out[i + 1] \in ScyllaWords

\* '.' matches anything but a line break: a match that begins at word i runs to
\* the last word of its line.
RECURSIVE LineEnd(_, _)
LineEnd(out, i) ==
    IF i + 1 <= Len(out) /\ out[i + 1] # NL THEN LineEnd(out, i + 1) ELSE i

\* re.findall: the matches from left to right, the search resuming after each.
RECURSIVE findall(_, _)
findall(out, i) ==
    IF i > Len(out) THEN <<>>
    ELSE IF MatchAt(out, i)
         THEN <<[from |-> i, to |-> LineEnd(out, i)]>> \o findall(out, LineEnd(out, i) + 1)
         ELSE findall(out, i + 1)

\* occurrence.split()[-1]: the final whitespace-delimited word of the match.
LastWord(out, occurrence) ==
    IF out[occurrence.to] = MARKER THEN "package" ELSE out[occurrence.to]

\* A plausible slip: the word after the marker is taken instead of the last one.
search_first_word(reg, out) ==
    LET occurrences == findall(out, 1)
    IN  reg \o [k \in 1..Len(occurrences) |-> out[occurrences[k].from + 1]]

\* A plausible slip: the list is assigned the failures of this output
\* (SCRIPTLET_FAILURE_LIST = pkgs) instead of being appended to.
search_assigns_the_list(reg, out) ==
    LET occurrences == findall(out, 1)
    IN  [k \in 1..Len(occurrences) |-> LastWord(out, occurrences[k])]

\* _search_scriptlet_failure: SCRIPTLET_FAILURE_LIST after inspecting `out`.
search_scriptlet_failure(reg, out) ==
    LET occurrences == findall(out, 1)
    IN  reg \o [k \in 1..Len(occurrences) |-> LastWord(out, occurrences[k])]

(* -------------------------------------------------------- package backends *)

\* backend_mapping of ScyllaSoftwareManager._init_on_demand.
backend_mapping ==
    [t \in {"apt-get", "yum", "dnf", "zypper"} |->
        CASE t = "apt-get" -> "ScyllaAptBackend"
          [] t = "yum"     -> "ScyllaYumBackend"
          [] t = "dnf"     -> "ScyllaDnfBackend"
          [] t = "zypper"  -> "ZypperBackend"]

\* What SystemInspector.get_package_management() may answer.
Tools == {"apt-get", "yum", "dnf", "zypper", "unknown"}

\* The result of process.run on an install command: ok is a zero exit status
\* (anything else raises process.CmdError), out the output.
NoResult == [ok |-> FALSE, out |-> <<>>]

\* A plausible slip: a recorded scriptlet failure makes install report failure.
install_fail_fast(b, reg, res) ==
    IF ~res.ok THEN [ret |-> FALSE, reg |-> reg, exc |-> "none"]
    ELSE IF b \in {"ScyllaYumBackend", "ScyllaDnfBackend"}
         THEN [ret |-> search_scriptlet_failure(reg, res.out) = reg,
               reg |-> search_scriptlet_failure(reg, res.out), exc |-> "none"]
         ELSE [ret |-> TRUE, reg |-> reg, exc |-> "none"]

\* A plausible slip: the YUM backend runs the command without inspecting it.
install_yum_uninspected(b, reg, res) ==
    IF ~res.ok THEN [ret |-> FALSE, reg |-> reg, exc |-> "none"]
    ELSE IF b = "ScyllaDnfBackend"
         THEN [ret |-> TRUE, reg |-> search_scriptlet_failure(reg, res.out), exc |-> "none"]
         ELSE [ret |-> TRUE, reg |-> reg, exc |-> "none"]

\* install(name) of backend b on command result res: the value returned, the
\* registry afterwards and the exception that escapes ("none": it returns).
\* ScyllaYumBackend and ScyllaDnfBackend inspect the result of a command that
\* succeeded; ScyllaAptBackend defines upgrade only and ZypperBackend is the
\* library's class, so their install is the library's, which knows no inspector.
install(b, reg, res) ==
    IF ~res.ok THEN [ret |-> FALSE, reg |-> reg, exc |-> "none"]
    ELSE IF b \in {"ScyllaYumBackend", "ScyllaDnfBackend"}
         THEN [ret |-> TRUE, reg |-> search_scriptlet_failure(reg, res.out), exc |-> "none"]
         ELSE [ret |-> TRUE, reg |-> reg, exc |-> "none"]

(* ------------------------------------------------------- service lifecycle *)

\* ScyllaServiceManager.services
services == <<"scylla-server", "scylla-jmx">>

Units == {services[i] : i \in 1..Len(services)}

\* What the units report when asked: TRUE is active (status() is true), FALSE
\* stands for both of the library's falsy answers.
Statuses == [Units -> BOOLEAN]

reversed(s) == [i \in 1..Len(s) |-> s[Len(s) + 1 - i]]

\* for srv in order: srv_manager.<verb>(srv)
Issue(verb, order) == [i \in 1..Len(order) |-> <<verb, order[i]>>]

\* The second loop of a lifecycle operation: the units' status is read in list
\* order until one contradicts `want`; the checks made, as <<unit, status>>.
RECURSIVE CheckLoop(_, _, _)
CheckLoop(st, want, i) ==
    IF i > Len(services) THEN <<>>
    ELSE IF st[services[i]] # want
         THEN << <<services[i], st[services[i]]>> >>
         ELSE << <<services[i], st[services[i]]>> >> \o CheckLoop(st, want, i + 1)

NoExc == [kind |-> "none", arg |-> ""]

Raise(kind, arg) == [kind |-> kind, arg |-> arg]

\* The exception a lifecycle operation raises after its checks: `error` naming
\* the unit of the check that contradicted `want`.
CheckResult(checks, want, error) ==
    IF checks # <<>> /\ checks[Len(checks)][2] # want
    THEN Raise(error, checks[Len(checks)][1])
    ELSE NoExc

\* A plausible slip: the status loop stops after the first unit.
start_services_first_unit_only(st) ==
    LET checks == SubSeq(CheckLoop(st, TRUE, 1), 1, 1)
    IN  [issued |-> Issue("start", services), checks |-> checks,
         exc |-> CheckResult(checks, TRUE, "StartServiceError")]

start_services(st) ==
    LET checks == CheckLoop(st, TRUE, 1)
    IN  [issued |-> Issue("start", services), checks |-> checks,
         exc |-> CheckResult(checks, TRUE, "StartServiceError")]

\* A plausible slip: the units are stopped in list order.
stop_services_in_list_order(st) ==
    LET checks == CheckLoop(st, FALSE, 1)
    IN  [issued |-> Issue("stop", services), checks |-> checks,
         exc |-> CheckResult(checks, FALSE, "StopServiceError")]

\* A plausible slip: the check of start_services is copied, so that stop
\* raises on a unit that is not active.
stop_services_checks_like_start(st) ==
    LET checks == CheckLoop(st, TRUE, 1)
    IN  [issued |-> Issue("stop", reversed(services)), checks |-> checks,
         exc |-> CheckResult(checks, TRUE, "StopServiceError")]

stop_services(st) ==
    LET checks == CheckLoop(st, FALSE, 1)
    IN  [issued |-> Issue("stop", reversed(services)), checks |-> checks,
         exc |-> CheckResult(checks, FALSE, "StopServiceError")]

\* A plausible slip: the error of start_services is copied.
restart_services_start_error(st) ==
    LET checks == CheckLoop(st, TRUE, 1)
    IN  [issued |-> Issue("restart", services), checks |-> checks,
         exc |-> CheckResult(checks, TRUE, "StartServiceError")]

restart_services(st) ==
    LET checks == CheckLoop(st, TRUE, 1)
    IN  [issued |-> Issue("restart", services), checks |-> checks,
         exc |-> CheckResult(checks, TRUE, "RestartServiceError")]

\* What one poll of the readiness predicate finds on the host.
Observations == [st : Statuses, port_free : BOOLEAN]

NoObservation == [st |-> [u \in Units |-> FALSE], port_free |-> TRUE]

\* _scylla_service_is_up: each unit's status is asked for and the answer
\* dropped; the value is whether port 9042 on localhost is taken.
scylla_service_is_up(obs) == ~obs.port_free

(* -------------------------------------------------------- bounded waiting *)

\* wait.wait_for, one poll: with `value` the predicate's answer at poll number
\* `n`, the wait returns the value, or gives up (it returns None) when the
\* timeout has elapsed, or sleeps a step and polls again.
wait_for(n, value) ==
    IF value THEN "return" ELSE IF n >= MaxPolls THEN "timeout" ELSE "again"

(* ------------------------------------------------------ installer variants *)

\* What distro.detect() may answer: name, version and release.
Names == {"Ubuntu", "debian", "fedora", "CentOS", "rhel"}

Versions == {"14", "16", "8", "22", "7"}

Releases == {"04", "10"}

Distros == [name : Names, version : Versions, release : Releases]

NoDistro == [name |-> "", version |-> "", release |-> ""]

\* str.lower() on the names above.
lower(name) ==
    CASE name = "Ubuntu" -> "ubuntu"
      [] name = "CentOS" -> "centos"
      [] OTHER -> name

fedora_22(d) == lower(d.name) = "fedora" /\ d.version = "22"

ubuntu_14_04(d) == lower(d.name) = "ubuntu" /\ d.version = "14" /\ d.release = "04"

ubuntu_16_04(d) == lower(d.name) = "ubuntu" /\ d.version = "16" /\ d.release = "04"

debian_8(d) == lower(d.name) = "debian" /\ d.version = "8"

centos_7(d) == lower(d.name) = "centos" /\ d.version = "7"

\* A plausible slip: an unmatched platform falls back to a default variant.
installer_best_guess(d, is_ami) ==
    IF is_ami THEN "ScyllaInstallAMI"
    ELSE IF ubuntu_14_04(d) THEN "ScyllaInstallUbuntu1404"
    ELSE IF ubuntu_16_04(d) THEN "ScyllaInstallUbuntu1604"
    ELSE IF debian_8(d) THEN "ScyllaInstallDebian8"
    ELSE IF fedora_22(d) THEN "ScyllaInstallFedora22"
    ELSE "ScyllaInstallCentOS7"

\* A plausible slip: the ami flag is tested after the distributions.
installer_ami_last(d, is_ami) ==
    IF ubuntu_14_04(d) THEN "ScyllaInstallUbuntu1404"
    ELSE IF ubuntu_16_04(d) THEN "ScyllaInstallUbuntu1604"
    ELSE IF debian_8(d) THEN "ScyllaInstallDebian8"
    ELSE IF fedora_22(d) THEN "ScyllaInstallFedora22"
    ELSE IF centos_7(d) THEN "ScyllaInstallCentOS7"
    ELSE IF is_ami THEN "ScyllaInstallAMI"
    ELSE "None"

\* The if/elif chain of scylla_setup: the installer it constructs, "None" when
\* no branch is taken.
select_installer(d, is_ami) ==
    IF is_ami THEN "ScyllaInstallAMI"
    ELSE IF ubuntu_14_04(d) THEN "ScyllaInstallUbuntu1404"
    ELSE IF ubuntu_16_04(d) THEN "ScyllaInstallUbuntu1604"
    ELSE IF debian_8(d) THEN "ScyllaInstallDebian8"
    ELSE IF fedora_22(d) THEN "ScyllaInstallFedora22"
    ELSE IF centos_7(d) THEN "ScyllaInstallCentOS7"
    ELSE "None"

\* The values of the 'mode' parameter the model draws.
Modes == {"ci", "release", "1.0"}

\* The list setup_ci or setup_release of each variant returns.
get_packages(inst, m) ==
    IF m = "ci" THEN <<"scylla">>
    ELSE IF inst = "ScyllaInstallFedora22"
         THEN IF m \in {"1.0", "1.1"} THEN <<"scylla-server", "scylla-jmx", "scylla-tools">>
              ELSE IF m \in {"1.2", "unstable"} THEN <<"scylla">>
              ELSE <<>>
         ELSE <<"scylla-enterprise">>

(* ---------------------------------------------------------- version gate *)

\* A version string is modelled by its lexemes, the dots left out: a number
\* stands for itself, and 'rc', '-', a lower-case word such as 'trusty' or
\* 'jessie', and '~' are the codes below.  Final is the part '*final' that the
\* legacy parser appends.  The codes are in the order of the strings the
\* legacy parser compares: '*c' < '*final' < '*final-' < '*jessie', '*trusty'
\* < '*~' < '00000000'.
Rc == 0 - 5

Final == 0 - 4

Dash == 0 - 3

Word == 0 - 2

Tilde == 0 - 1

\* What 'apt-cache show' may give as the version of the package.
AptVersions ==
    { <<1, 6, 3>>, <<1, 7>>, <<1, 7, 0>>, <<1, 10, 0>>,
      <<1, 6, Tilde, Rc, 1>>, <<1, 7, Tilde, Rc, 0>>,
      <<1, 6, 3, Dash, 1, Tilde, Word>>, <<1, 7, 0, Dash, 1, Tilde, Word>> }

\* The order of Python tuples.
RECURSIVE Less(_, _)
Less(a, b) ==
    IF a = <<>> THEN b # <<>>
    ELSE IF b = <<>> THEN FALSE
    ELSE IF Head(a) # Head(b) THEN Head(a) < Head(b)
    ELSE Less(Tail(a), Tail(b))

\* while parts and parts[-1] == x: parts.pop()
RECURSIVE Pop(_, _)
Pop(parts, x) ==
    IF parts # <<>> /\ parts[Len(parts)] = x
    THEN Pop(SubSeq(parts, 1, Len(parts) - 1), x)
    ELSE parts

\* The key of a LegacyVersion: before a part that is not a number the zeros
\* at the end are dropped, and before a part below '*final' the '*final-'
\* parts at the end as well.
RECURSIVE legacy_cmpkey(_, _)
legacy_cmpkey(rest, parts) ==
    IF rest = <<>> THEN parts
    ELSE LET part == Head(rest)
             kept == IF part >= 0 THEN parts
                     ELSE Pop(IF part < Final THEN Pop(parts, Dash) ELSE parts, 0)
         IN  legacy_cmpkey(Tail(rest), Append(kept, part))

\* The numbers a version begins with.
RECURSIVE release(_)
release(ver) ==
    IF ver = <<>> \/ Head(ver) < 0 THEN <<>>
    ELSE <<Head(ver)>> \o release(Tail(ver))

\* The versions of the forms N.N, N.NrcN and N.N-N, which PEP 440 accepts; a
\* version with '~' or a word is not accepted.
valid(ver) ==
    LET n == Len(release(ver))
    IN  /\ n > 0
        /\ \/ Len(ver) = n
           \/ /\ Len(ver) = n + 2
              /\ ver[n + 1] \in {Rc, Dash}
              /\ ver[n + 2] >= 0

NoPre == 1000000

NoPost == 0 - 1

\* parse_version of pkg_resources before setuptools 66: a Version for what
\* PEP 440 accepts, whose release is compared without the zeros at its end, a
\* LegacyVersion for anything else.
parse_version(ver) ==
    LET n == Len(release(ver))
    IN  IF valid(ver)
        THEN [legacy |-> FALSE, key |-> Pop(release(ver), 0),
              pre |-> IF Len(ver) > n /\ ver[n + 1] = Rc THEN ver[n + 2] ELSE NoPre,
              post |-> IF Len(ver) > n /\ ver[n + 1] = Dash THEN ver[n + 2] ELSE NoPost]
        ELSE [legacy |-> TRUE, key |-> legacy_cmpkey(ver \o <<Final>>, <<>>),
              pre |-> NoPre, post |-> NoPost]

\* a < b on what parse_version returns: a LegacyVersion is below every
\* Version.
version_lt(a, b) ==
    IF a.legacy # b.legacy THEN a.legacy
    ELSE \/ Less(a.key, b.key)
         \/ /\ a.key = b.key
            /\ \/ a.pre < b.pre
               \/ a.pre = b.pre /\ a.post < b.post

\* The variants whose package resolution provisions JRE 8 behind a version
\* gate.
Gated == {"ScyllaInstallUbuntu1404", "ScyllaInstallDebian8"}

\* ver of setup_ci and setup_release: what the regular expression takes of the
\* version line, which in setup_ci of Ubuntu 14.04 is digits and dots only.
extracted(inst, m, ver) ==
    IF inst = "ScyllaInstallUbuntu1404" /\ m = "ci" THEN release(ver) ELSE ver

\* The version the resolved one is compared with: '1.7' in setup_ci of Ubuntu
\* 14.04, '1.7~rc0' in the three others.
gate(inst, m) ==
    IF inst = "ScyllaInstallUbuntu1404" /\ m = "ci" THEN <<1, 7>>
    ELSE <<1, 7, Tilde, Rc, 0>>

\* parse_version(ver) >= parse_version(gate)
jre8_needed(inst, m, ver) ==
    ~version_lt(parse_version(extracted(inst, m, ver)), parse_version(gate(inst, m)))

\* parse_version of setuptools 66 and later raises InvalidVersion for what
\* PEP 440 does not accept.
invalid_version(inst, m, ver) ==
    ~valid(extracted(inst, m, ver)) \/ ~valid(gate(inst, m))

\* The commands of setup_ci or setup_release of a gated variant, by group.
setup_steps(provisioned) ==
    <<"repo", "apt-get update", "apt-cache show">>
        \o (IF provisioned THEN <<"jre8">> ELSE <<>>) \o <<"upgrade">>

\* A plausible slip: the test of self.initialized is left out, so that every
\* call inspects the host and builds a backend anew.
init_on_demand_every_call(init, b, tool) ==
    IF tool \notin DOMAIN backend_mapping
    THEN [initialized |-> init, backend |-> b,
          exc |-> Raise("NotImplementedError", tool), inspected |-> TRUE]
    ELSE [initialized |-> TRUE, backend |-> backend_mapping[tool], exc |-> NoExc,
          inspected |-> TRUE]

\* A plausible slip: a tool the mapping does not know gets a default backend.
init_on_demand_fallback(init, b, tool) ==
    IF init THEN [initialized |-> TRUE, backend |-> b, exc |-> NoExc, inspected |-> FALSE]
    ELSE IF tool \notin DOMAIN backend_mapping
         THEN [initialized |-> TRUE, backend |-> "ScyllaYumBackend", exc |-> NoExc,
               inspected |-> TRUE]
         ELSE [initialized |-> TRUE, backend |-> backend_mapping[tool], exc |-> NoExc,
               inspected |-> TRUE]

\* ScyllaSoftwareManager._init_on_demand, which __getattr__ calls at every use
\* of the manager, with `tool` the tool the host has: the manager afterwards,
\* the exception raised, and whether the host was inspected.
init_on_demand(init, b, tool) ==
    IF init THEN [initialized |-> TRUE, backend |-> b, exc |-> NoExc, inspected |-> FALSE]
    ELSE IF tool \notin DOMAIN backend_mapping
         THEN [initialized |-> FALSE, backend |-> b,
               exc |-> Raise("NotImplementedError", tool), inspected |-> TRUE]
         ELSE [initialized |-> TRUE, backend |-> backend_mapping[tool], exc |-> NoExc,
               inspected |-> TRUE]

\* The wait for update_pkg_list in ScyllaAptBackend.upgrade: answers[n] tells
\* whether 'apt-get update' succeeds at attempt n; the attempt the wait ends at.
RECURSIVE update_pkg_list_wait(_, _)
update_pkg_list_wait(answers, n) ==
    IF wait_for(n, answers[n]) = "again" THEN update_pkg_list_wait(answers, n + 1)
    ELSE n

\* What became of the index refresh of upgrade(): ScyllaAptBackend alone makes
\* one, the library's upgrade of the other backends has none.
refresh(b, answers) ==
    IF b = "ScyllaAptBackend"
    THEN LET n == update_pkg_list_wait(answers, 1)
         IN  [attempts |-> n, refreshed |-> answers[n]]
    ELSE [attempts |-> 0, refreshed |-> TRUE]

\* up_cmd of ScyllaAptBackend.upgrade, by its words; name is "" for None.
up_cmd(name) ==
    IF name # "" THEN <<"apt-get", "install --only-upgrade", name>>
    ELSE <<"apt-get", "upgrade">>

\* upgrade() of a backend: whatever became of the index refresh (ScyllaAptBackend
\* waits for it and drops the wait's answer), the value is whether the upgrade
\* command succeeded.
upgrade(b, refreshed, cmd_ok) == cmd_ok

(* ------------------------------------------------------------------ state *)

VARIABLES
    pc,           \* where the test process stands
    outcome,      \* how the process ended: the exception that left it, or PASS
    registry,     \* SCRIPTLET_FAILURE_LIST
    initialized,  \* ScyllaSoftwareManager.initialized
    backend,      \* ScyllaSoftwareManager.backend, by class name
    mode,         \* the 'mode' parameter
    ami,          \* the 'ami' parameter, as scylla_setup reads it
    detected,     \* detected_distro of scylla_setup
    installer,    \* installer of scylla_setup, by class name
    ran,          \* installer.run() has been entered in this process
    setup_done,   \* the file scylla-setup-done exists
    uuid_file,    \* the file housekeeping.uuid exists
    mark_file,    \* the file housekeeping.uuid.marked exists
    reports,      \* times the identifier was sent to the endpoint
    pkgs,         \* pkgs of run()
    idx,          \* the place in pkgs the install loop has reached
    devlist,      \* devlist of run() is not empty
    trace,        \* the steps of run() that have returned in this process
    marker_seen,  \* an install command of this process succeeded with the marker
                  \* in its output
    lifecycle,    \* the lifecycle operations of this process, each with the
                  \* status its commands left the units in
    op            \* the operation made by the last step, with its locals

vars == <<pc, outcome, registry, initialized, backend, mode, ami, detected,
          installer, ran, setup_done, uuid_file, mark_file, reports, pkgs, idx,
          devlist, trace, marker_seen, lifecycle, op>>

host == <<setup_done, uuid_file, mark_file, reports>>

manager == <<initialized, backend>>

chosen == <<mode, ami, detected, installer>>

log == <<trace, marker_seen, lifecycle>>

\* An entry of trace: a step of run() and, for an install, its package.
Step(name, arg) == <<name, arg>>

Running == [kind |-> "running", arg |-> ""]

\* The locals of an operation: the lifecycle commands it issued and the status
\* checks it made, the polls of its wait and what the last one found, the
\* result of its install command with the value returned and the registry
\* before, the options it gave the host-configuration command, the tool the
\* host was found to have and whether the host was inspected, the attempts of
\* the index refresh with their end and the upgrade command, the packages
\* the closing check cites, whether /var/lib/scylla was a mount point, and the
\* checks the host passes, and of the AMI run the instance type, the network
\* driver in use and whether the network validation went through, and of the
\* package resolution the version read, whether JRE 8 was provisioned and the
\* commands made.
NoOp ==
    [name |-> "", issued |-> <<>>, checks |-> <<>>, polls |-> 0,
     seen |-> NoObservation, result |-> NoResult, ret |-> FALSE,
     reg0 |-> <<>>, opts |-> {}, tool |-> "", inspected |-> FALSE,
     attempts |-> 0, refreshed |-> TRUE, cmd |-> <<>>, cited |-> <<>>,
     ismount |-> FALSE, passes |-> {},
     instance |-> [maintype |-> "", subtype |-> ""], driver |-> "",
     validated |-> FALSE, ver |-> <<>>, provisioned |-> FALSE, steps |-> <<>>]

\* The state of a process that has just been started on the host.
Fresh ==
    /\ pc = "setUp"
    /\ outcome = Running
    /\ registry = <<>>
    /\ initialized = FALSE
    /\ backend = "None"
    /\ mode = "ci"
    /\ ami = FALSE
    /\ detected = NoDistro
    /\ installer = "None"
    /\ ran = FALSE
    /\ pkgs = <<>>
    /\ idx = 0
    /\ devlist = FALSE
    /\ trace = <<>>
    /\ marker_seen = FALSE
    /\ lifecycle = <<>>
    /\ op = NoOp

Init ==
    /\ Fresh
    /\ setup_done = FALSE
    /\ uuid_file = FALSE
    /\ mark_file = FALSE
    /\ reports = 0

\* An exception leaves the test: the process ends with it.
Fail(exc) == pc' = "end" /\ outcome' = exc

Goto(to) == pc' = to /\ UNCHANGED outcome

(* ------------------------------------------------- ScyllaArtifactSanity.setUp *)

\* A plausible slip: setUp sets up whether or not the sentinel exists.
setUp_ignores_sentinel ==
    /\ pc = "setUp"
    /\ Goto("scylla_setup")
    /\ op' = [NoOp EXCEPT !.name = "setUp"]
    /\ UNCHANGED <<registry, manager, chosen, ran, host, pkgs, idx, devlist, log>>

setUp ==
    /\ pc = "setUp"
    /\ Goto(IF setup_done THEN "test" ELSE "scylla_setup")
    /\ op' = [NoOp EXCEPT !.name = "setUp"]
    /\ UNCHANGED <<registry, manager, chosen, ran, host, pkgs, idx, devlist, log>>

\* scylla_setup up to installer.run(): the parameters are read, the distribution
\* detected and the installer chosen; self.skip() leaves the test when no branch
\* of the chain is taken.
scylla_setup ==
    /\ pc = "scylla_setup"
    /\ \E d \in Distros, a \in BOOLEAN, m \in Modes :
         /\ detected' = d
         /\ ami' = a
         /\ mode' = m
         /\ installer' = select_installer(d, a)
         /\ IF select_installer(d, a) = "None"
            THEN Fail(Raise("TestSkipError", "Unsupported OS"))
            ELSE Goto("installer_run")
    /\ op' = [NoOp EXCEPT !.name = "scylla_setup"]
    /\ UNCHANGED <<registry, manager, ran, host, pkgs, idx, devlist, log>>

\* scylla_setup after installer.run() has returned: os.mknod of the sentinel.
scylla_setup_done ==
    /\ pc = "run_done"
    /\ setup_done' = TRUE
    /\ Goto("test")
    /\ op' = [NoOp EXCEPT !.name = "mknod"]
    /\ UNCHANGED <<registry, manager, chosen, ran, uuid_file, mark_file, reports,
                   pkgs, idx, devlist, log>>

(* ------------------------------------------------------ ScyllaInstallAMI.run *)

\* What the instance-type metadata may answer, split at the dot.
MainTypes == {"i3", "p2", "r4", "x1", "m4", "c3", "c4", "d2", "i2", "r3", "t2"}

SubTypes == {"large", "16xlarge"}

\* What ethtool may name as the driver of eth0.
Drivers == {"ena", "ixgbevf", "vif"}

\* The driver enhanced_net_enabled expects of an instance type, "" when it
\* only logs that the type has no enhanced networking.
expected_driver(maintype, subtype) ==
    IF maintype \in {"i3", "p2", "r4", "x1"}
       \/ (maintype = "m4" /\ subtype = "16xlarge") THEN "ena"
    ELSE IF maintype \in {"c3", "c4", "d2", "i2", "r3"} \/ maintype = "m4"
         THEN "ixgbevf"
    ELSE ""

\* check_used_driver(expected) on a host with or without a VPC and with
\* `driver` in use: the assertion that fails, "" when both hold.
check_used_driver(expected, vpc, driver) ==
    IF ~vpc THEN "VPC is not enabled"
    ELSE IF expected # driver THEN "Enhanced networking isn't enabled"
    ELSE ""

\* run() of the AMI variant enters enhanced_net_enabled: the instance type is
\* asked for and the driver validated; then the version of scylla is read and
\* self.is_enterprise, which no class sets, so that the method cannot return:
\* a command fails, an assertion fails, or AttributeError is raised.
ScyllaInstallAMI_run ==
    /\ pc = "installer_run"
    /\ installer = "ScyllaInstallAMI"
    /\ ran' = TRUE
    /\ \E maintype \in MainTypes, subtype \in SubTypes, vpc \in BOOLEAN,
          driver \in Drivers, type_ok \in BOOLEAN, version_ok \in BOOLEAN :
         LET expected == expected_driver(maintype, subtype)
             failed == IF expected = "" THEN ""
                       ELSE check_used_driver(expected, vpc, driver)
         IN  /\ op' = [NoOp EXCEPT !.name = "enhanced_net_enabled",
                                   !.instance = [maintype |-> maintype,
                                                 subtype |-> subtype],
                                   !.driver = driver,
                                   !.validated = (type_ok /\ failed = "")]
             /\ IF ~type_ok THEN Fail(Raise("CmdError", "instance-type"))
                ELSE IF failed # "" THEN Fail(Raise("AssertionError", failed))
                ELSE IF ~version_ok THEN Fail(Raise("CmdError", "scylla --version"))
                ELSE Fail(Raise("AttributeError", "is_enterprise"))
    /\ UNCHANGED <<registry, manager, chosen, host, pkgs, idx, devlist, log>>

(* -------------------------------------------------- ScyllaInstallGeneric.run *)

\* run() begins: reading self.sw_manager.upgrade resolves the backend.
run_begin ==
    /\ pc = "installer_run"
    /\ installer # "ScyllaInstallAMI"
    /\ ran' = TRUE
    /\ \E tool \in Tools :
         LET r == init_on_demand(initialized, backend, tool)
         IN  /\ initialized' = r.initialized
             /\ backend' = r.backend
             /\ op' = [NoOp EXCEPT !.name = "_init_on_demand", !.tool = tool,
                                   !.inspected = r.inspected]
             /\ IF r.exc # NoExc THEN Fail(r.exc) ELSE Goto("run_upgrade")
    /\ UNCHANGED <<registry, chosen, host, pkgs, idx, devlist, log>>

\* One poll of wait.wait_for(self.sw_manager.upgrade, timeout=300, step=30),
\* a call of upgrade() with no name; what the wait returns is not looked at.
run_upgrade ==
    /\ pc = "run_upgrade"
    /\ \E answers \in [1..MaxPolls -> BOOLEAN], cmd_ok \in BOOLEAN :
         LET n == op.polls + 1
             f == refresh(backend, answers)
             value == upgrade(backend, f.refreshed, cmd_ok)
             ends == wait_for(n, value) # "again"
         IN  /\ op' = [NoOp EXCEPT !.name = "upgrade", !.polls = n, !.ret = value,
                                   !.attempts = f.attempts,
                                   !.refreshed = f.refreshed, !.cmd = up_cmd("")]
             /\ Goto(IF ends THEN "run_get_packages" ELSE "run_upgrade")
             /\ trace' = IF ends THEN Append(trace, Step("upgrade", "")) ELSE trace
    /\ UNCHANGED <<registry, manager, chosen, ran, host, pkgs, idx, devlist,
                   marker_seen, lifecycle>>

\* pkgs = get_packages(): a command of setup_ci or setup_release that fails
\* raises process.CmdError.  On Ubuntu 14.04 and Debian 8 the version of the
\* package is read and JRE 8 provisioned behind the version gate; `strict` is
\* a host whose parse_version raises InvalidVersion.  The variants use the manager there as well
\* (self.sw_manager.upgrade(), and remove() on CentOS), through __getattr__.
run_get_packages ==
    /\ pc = "run_get_packages"
    /\ \E cmds_ok \in BOOLEAN, tool \in Tools, strict \in BOOLEAN,
          ver \in IF installer \in Gated THEN AptVersions ELSE {<<>>} :
         LET m == init_on_demand(initialized, backend, tool)
             gated == installer \in Gated
             raises == gated /\ strict /\ invalid_version(installer, mode, ver)
             returns == m.exc = NoExc /\ cmds_ok /\ ~raises
             provisioned == gated /\ jre8_needed(installer, mode, ver)
         IN  /\ initialized' = m.initialized
             /\ backend' = m.backend
             /\ op' = [NoOp EXCEPT !.name = "get_packages",
                                   !.inspected = m.inspected,
                                   !.ver = IF returns THEN ver ELSE <<>>,
                                   !.provisioned = returns /\ provisioned,
                                   !.steps = IF returns /\ gated
                                             THEN setup_steps(provisioned)
                                             ELSE <<>>]
             /\ IF m.exc # NoExc
                THEN /\ Fail(m.exc)
                     /\ UNCHANGED <<pkgs, idx, trace>>
                ELSE IF cmds_ok /\ raises
                THEN /\ Fail(Raise("InvalidVersion", "parse_version"))
                     /\ UNCHANGED <<pkgs, idx, trace>>
                ELSE IF cmds_ok
                THEN /\ pkgs' = get_packages(installer, mode)
                     /\ idx' = 1
                     /\ trace' = Append(trace, Step("get_packages", ""))
                     /\ Goto("run_install")
                ELSE /\ Fail(Raise("CmdError", "get_packages"))
                     /\ UNCHANGED <<pkgs, idx, trace>>
    /\ UNCHANGED <<registry, chosen, ran, host, devlist, marker_seen, lifecycle>>

\* The results an install command may have.
RunOutputs == {<<"warning">>, <<"warning", NL, MARKER, "scylla-foo">>}

RunResults == [ok : BOOLEAN, out : RunOutputs]

\* The output holds the failure pattern.
search(out) == \E i \in 1..Len(out) : MatchAt(out, i)

\* A plausible slip: a package that could not be installed is passed over and
\* the loop goes on.
run_install_keeps_going ==
    /\ pc = "run_install"
    /\ idx <= Len(pkgs)
    /\ \E res \in RunResults, tool \in Tools :
         LET m == init_on_demand(initialized, backend, tool)
             r == install(m.backend, registry, res)
         IN  /\ initialized' = m.initialized
             /\ backend' = m.backend
             /\ registry' = r.reg
             /\ op' = [NoOp EXCEPT !.name = "install", !.result = res,
                                   !.ret = r.ret, !.reg0 = registry,
                                   !.inspected = m.inspected]
             /\ Goto("run_install")
             /\ idx' = idx + 1
             /\ trace' = IF r.ret THEN Append(trace, Step("install", pkgs[idx]))
                         ELSE trace
             /\ marker_seen' = (marker_seen \/ (r.ret /\ search(res.out)))
    /\ UNCHANGED <<chosen, ran, host, pkgs, devlist, lifecycle>>

\* One turn of the install loop: self.sw_manager.install(pkg), which goes to
\* the backend through __getattr__, and InstallPackageError when it returns
\* false.
run_install ==
    /\ pc = "run_install"
    /\ idx <= Len(pkgs)
    /\ \E res \in RunResults, tool \in Tools :
         LET m == init_on_demand(initialized, backend, tool)
             r == install(m.backend, registry, res)
             installed == m.exc = NoExc /\ r.exc = "none" /\ r.ret
         IN  /\ initialized' = m.initialized
             /\ backend' = m.backend
             /\ registry' = IF m.exc = NoExc THEN r.reg ELSE registry
             /\ op' = [NoOp EXCEPT !.name = "install", !.result = res,
                                   !.ret = r.ret, !.reg0 = registry,
                                   !.inspected = m.inspected]
             /\ IF m.exc # NoExc THEN Fail(m.exc)
                ELSE IF r.exc # "none" THEN Fail(Raise(r.exc, pkgs[idx]))
                ELSE IF ~r.ret THEN Fail(Raise("InstallPackageError", pkgs[idx]))
                ELSE Goto("run_install")
             /\ idx' = IF installed THEN idx + 1 ELSE idx
             /\ trace' = IF installed THEN Append(trace, Step("install", pkgs[idx]))
                         ELSE trace
             /\ marker_seen' = (marker_seen \/ (installed /\ search(res.out)))
    /\ UNCHANGED <<chosen, ran, host, pkgs, devlist, lifecycle>>

\* A plausible slip: the test of the mount point is left out, so that a second
\* disk always gets --disks.
setup_cmd_ignores_mount(dev, ismount, exporter, cpuscaling) ==
    {"--nic"}
    \cup (IF dev THEN {"--disks"} ELSE {"--no-raid-setup"})
    \cup (IF exporter THEN {"--no-node-exporter"} ELSE {})
    \cup (IF cpuscaling THEN {"--no-cpuscaling-setup"} ELSE {})

\* The options of setup_cmd: --disks when a second disk was found and
\* /var/lib/scylla is not a mount point, --no-raid-setup otherwise;
\* --no-node-exporter when /usr/bin/node_exporter exists, and
\* --no-cpuscaling-setup when the scylla_setup script knows the option.
setup_cmd(dev, ismount, exporter, cpuscaling) ==
    {"--nic"}
    \cup (IF dev /\ ~ismount THEN {"--disks"} ELSE {"--no-raid-setup"})
    \cup (IF exporter THEN {"--no-node-exporter"} ELSE {})
    \cup (IF cpuscaling THEN {"--no-cpuscaling-setup"} ELSE {})

\* The host-configuration command of run(), built and run.
run_setup_cmd ==
    /\ pc = "run_install"
    /\ idx > Len(pkgs)
    /\ \E dev \in BOOLEAN, ismount \in BOOLEAN, exporter \in BOOLEAN,
          cpuscaling \in BOOLEAN, cmd_ok \in BOOLEAN :
         /\ devlist' = dev
         /\ op' = [NoOp EXCEPT !.name = "scylla_setup_cmd", !.ismount = ismount,
                               !.opts = setup_cmd(dev, ismount, exporter, cpuscaling)]
         /\ IF cmd_ok THEN Goto("run_start")
            ELSE Fail(Raise("CmdError", "scylla_setup"))
         /\ trace' = IF cmd_ok THEN Append(trace, Step("scylla_setup", "")) ELSE trace
    /\ UNCHANGED <<registry, manager, chosen, ran, host, pkgs, idx, marker_seen, lifecycle>>

(* ----------------------------------------------------- ScyllaServiceManager *)

\* The trace after a step of run() named `name` that leads to `to`: the step
\* is entered when it has returned there.
Returned(to, name) == IF pc' = to THEN Append(trace, Step(name, "")) ELSE trace

\* A lifecycle operation called at `from`, returning to `to`; `st` is the
\* status its commands leave the units in, which its checks read.
Lifecycle(from, to, name, st, r) ==
    /\ pc = from
    /\ op' = [NoOp EXCEPT !.name = name, !.issued = r.issued, !.checks = r.checks]
    /\ lifecycle' = Append(lifecycle, <<name, st>>)
    /\ IF r.exc # NoExc THEN Fail(r.exc) ELSE Goto(to)
    /\ UNCHANGED <<registry, manager, chosen, ran, host, pkgs, idx, devlist,
                   marker_seen>>

\* A plausible slip: what wait_for returns is not looked at, as in the other
\* waits of the file, so that a wait that gave up returns normally.
wait_services_up_unchecked(from, to) ==
    /\ pc = from
    /\ \E obs \in Observations :
         LET n == op.polls + 1
             w == wait_for(n, scylla_service_is_up(obs))
         IN  /\ op' = [NoOp EXCEPT !.name = "wait_services_up", !.polls = n,
                                   !.seen = obs]
             /\ IF w = "again" THEN Goto(from) ELSE Goto(to)
    /\ UNCHANGED <<registry, manager, chosen, ran, host, pkgs, idx, devlist,
                   marker_seen, lifecycle>>

\* One poll of wait_services_up, called at `from` and returning to `to`:
\* StartServiceError when wait_for gave up.
wait_services_up(from, to) ==
    /\ pc = from
    /\ \E obs \in Observations :
         LET n == op.polls + 1
             w == wait_for(n, scylla_service_is_up(obs))
         IN  /\ op' = [NoOp EXCEPT !.name = "wait_services_up", !.polls = n,
                                   !.seen = obs]
             /\ IF w = "return" THEN Goto(to)
                ELSE IF w = "again" THEN Goto(from)
                ELSE Fail(Raise("StartServiceError", "not up after 900 s"))
    /\ UNCHANGED <<registry, manager, chosen, ran, host, pkgs, idx, devlist,
                   marker_seen, lifecycle>>

\* A plausible slip: run() goes from start_services to the identifier report
\* and leaves wait_services_up out.
run_start_services_no_wait ==
    /\ pc = "run_start"
    /\ \E st \in Statuses :
         Lifecycle("run_start", "run_uuid", "start_services", st, start_services(st))
    /\ trace' = Returned("run_uuid", "start_services")

run_start_services ==
    /\ pc = "run_start"
    /\ \E st \in Statuses :
         Lifecycle("run_start", "run_wait", "start_services", st, start_services(st))
    /\ trace' = Returned("run_wait", "start_services")

run_wait_services_up ==
    /\ pc = "run_wait"
    /\ wait_services_up("run_wait", "run_uuid")
    /\ trace' = Returned("run_uuid", "wait_services_up")

\* try_report_uuid, called at `from` and returning to `to`.  The wait for the
\* identifier file ends with the file there or not (`appears`: it was written
\* meanwhile); the identifier is sent when the file exists and the marker does
\* not, and the marker written after; either command raises when it fails.
try_report_uuid(from, to) ==
    /\ pc = from
    /\ \E appears \in BOOLEAN, report_ok \in BOOLEAN, mark_ok \in BOOLEAN :
         LET exists == uuid_file \/ appears
             sends == exists /\ ~mark_file
         IN  /\ sends => reports < MaxReports
             /\ uuid_file' = exists
             /\ reports' = IF sends /\ report_ok THEN reports + 1 ELSE reports
             /\ mark_file' = (mark_file \/ (sends /\ report_ok /\ mark_ok))
             /\ IF sends /\ ~report_ok THEN Fail(Raise("CmdError", "curl"))
                ELSE IF sends /\ ~mark_ok THEN Fail(Raise("CmdError", "touch"))
                ELSE Goto(to)
    /\ op' = [NoOp EXCEPT !.name = "try_report_uuid"]
    /\ UNCHANGED <<registry, manager, chosen, ran, setup_done, pkgs, idx, devlist,
                   marker_seen, lifecycle>>

run_try_report_uuid ==
    /\ pc = "run_uuid"
    /\ try_report_uuid("run_uuid", "run_verify")
    /\ trace' = Returned("run_verify", "try_report_uuid")

\* The checks that close run(), in the order of the code.
Checks == <<"selinux", "node_exporter", "mount", "ntp", "coredump", "service">>

is_debian_variant(d) == lower(d.name) \in {"ubuntu", "debian"}

\* A plausible slip: the mount check is made whether or not a disk was found.
Applicable_mount_always(c, d, dev) ==
    CASE c = "selinux" -> ~is_debian_variant(d)
      [] OTHER         -> TRUE

\* The SELinux check is made on the other distributions only, the mount check
\* only when a second disk was found.
Applicable(c, d, dev) ==
    CASE c = "selinux" -> ~is_debian_variant(d)
      [] c = "mount"   -> dev
      [] OTHER         -> TRUE

\* A plausible slip: a failing check is noted and the checks go on, the
\* result of the last one deciding.
RECURSIVE Verify_goes_on(_, _, _, _)
Verify_goes_on(passes, d, dev, i) ==
    IF i > Len(Checks) THEN <<>>
    ELSE IF ~Applicable(Checks[i], d, dev) THEN Verify_goes_on(passes, d, dev, i + 1)
    ELSE << <<Checks[i], passes[Checks[i]]>> >> \o Verify_goes_on(passes, d, dev, i + 1)

\* What a failing check raises: AssertionError from an assert, process.CmdError
\* from a command of the check that exits non-zero.
Errors(c) ==
    CASE c = "selinux"       -> {"CmdError", "AssertionError"}
      [] c = "node_exporter" -> {"AssertionError"}
      [] c = "mount"         -> {"AssertionError"}
      [] c = "ntp"           -> {"CmdError"}
      [] c = "coredump"      -> {"CmdError", "AssertionError"}
      [] c = "service"       -> {"CmdError", "AssertionError"}

\* The checks made when `passes` tells which ones the host passes: each
\* applicable one in order, up to the first that fails.
RECURSIVE Verify(_, _, _, _)
Verify(passes, d, dev, i) ==
    IF i > Len(Checks) THEN <<>>
    ELSE IF ~Applicable(Checks[i], d, dev) THEN Verify(passes, d, dev, i + 1)
    ELSE IF ~passes[Checks[i]] THEN << <<Checks[i], FALSE>> >>
    ELSE << <<Checks[i], TRUE>> >> \o Verify(passes, d, dev, i + 1)

run_verify ==
    /\ pc = "run_verify"
    /\ \E passes \in [{Checks[i] : i \in 1..Len(Checks)} -> BOOLEAN] :
         LET made == Verify(passes, detected, devlist, 1)
         IN  /\ op' = [NoOp EXCEPT !.name = "verify", !.checks = made,
                                   !.passes = {c \in DOMAIN passes : passes[c]}]
             /\ IF made # <<>> /\ ~made[Len(made)][2]
                THEN \E e \in Errors(made[Len(made)][1]) :
                         Fail(Raise(e, made[Len(made)][1]))
                ELSE Goto("run_done")
    /\ trace' = Returned("run_done", "verify")
    /\ UNCHANGED <<registry, manager, chosen, ran, host, pkgs, idx, devlist,
                   marker_seen, lifecycle>>

(* ------------------------------------------------------------ test methods *)

Passed == [kind |-> "PASS", arg |-> ""]

\* run_nodetool and run_cassandra_stress, then `last`, the outcome when both
\* went through.
Exercise(nodetool_ok, stress_ok, last) ==
    IF ~nodetool_ok THEN Raise("CmdError", "nodetool")
    ELSE IF ~stress_ok THEN Raise("TestFail", "cassandra-stress")
    ELSE last

\* A plausible slip: the message of the closing check cites the first entry.
closing_check_cites_first(reg) ==
    IF reg # <<>>
    THEN [exc |-> Raise("TestFail", "RPM scriptlet failure reported"),
          cited |-> <<reg[1]>>]
    ELSE [exc |-> Passed, cited |-> <<>>]

\* The closing check of test_after_install: self.fail with a message that
\* joins the entries of SCRIPTLET_FAILURE_LIST when there are any.
closing_check(reg) ==
    IF reg # <<>>
    THEN [exc |-> Raise("TestFail", "RPM scriptlet failure reported"), cited |-> reg]
    ELSE [exc |-> Passed, cited |-> <<>>]

test_after_install ==
    /\ pc = "test"
    /\ \E nodetool_ok \in BOOLEAN, stress_ok \in BOOLEAN :
         LET c == closing_check(registry)
         IN  /\ Fail(Exercise(nodetool_ok, stress_ok, c.exc))
             /\ op' = [NoOp EXCEPT !.name = "test_after_install",
                                   !.cited = IF nodetool_ok /\ stress_ok THEN c.cited
                                             ELSE <<>>]
    /\ UNCHANGED <<registry, manager, chosen, ran, host, pkgs, idx, devlist, log>>

test_after_stop_start_stop ==
    /\ pc = "test"
    /\ \E st \in Statuses :
         Lifecycle("test", "stop_start", "stop_services", st, stop_services(st))
    /\ UNCHANGED trace

test_after_stop_start_start ==
    /\ pc = "stop_start"
    /\ \E st \in Statuses :
         Lifecycle("stop_start", "stop_start_wait", "start_services", st, start_services(st))
    /\ UNCHANGED trace

test_after_stop_start_wait ==
    /\ pc = "stop_start_wait"
    /\ wait_services_up("stop_start_wait", "exercise")
    /\ UNCHANGED trace

test_after_restart_restart ==
    /\ pc = "test"
    /\ \E st \in Statuses :
         Lifecycle("test", "restart_wait", "restart_services", st, restart_services(st))
    /\ UNCHANGED trace

test_after_restart_wait ==
    /\ pc = "restart_wait"
    /\ wait_services_up("restart_wait", "exercise")
    /\ UNCHANGED trace

\* The end of test_after_stop_start and of test_after_restart.
test_exercise ==
    /\ pc = "exercise"
    /\ \E nodetool_ok \in BOOLEAN, stress_ok \in BOOLEAN :
         Fail(Exercise(nodetool_ok, stress_ok, Passed))
    /\ op' = [NoOp EXCEPT !.name = "exercise"]
    /\ UNCHANGED <<registry, manager, chosen, ran, host, pkgs, idx, devlist, log>>

\* The test runner starts the next test in a process of its own.
next_process ==
    /\ pc = "end"
    /\ pc' = "setUp"
    /\ outcome' = Running
    /\ registry' = <<>>
    /\ initialized' = FALSE
    /\ backend' = "None"
    /\ mode' = "ci"
    /\ ami' = FALSE
    /\ detected' = NoDistro
    /\ installer' = "None"
    /\ ran' = FALSE
    /\ pkgs' = <<>>
    /\ idx' = 0
    /\ devlist' = FALSE
    /\ trace' = <<>>
    /\ marker_seen' = FALSE
    /\ lifecycle' = <<>>
    /\ op' = NoOp
    /\ UNCHANGED host

Next ==
    \/ setUp
    \/ scylla_setup
    \/ scylla_setup_done
    \/ ScyllaInstallAMI_run
    \/ run_begin
    \/ run_upgrade
    \/ run_get_packages
    \/ run_install
    \/ run_setup_cmd
    \/ run_start_services
    \/ run_wait_services_up
    \/ run_try_report_uuid
    \/ run_verify
    \/ test_after_install
    \/ test_after_stop_start_stop
    \/ test_after_stop_start_start
    \/ test_after_stop_start_wait
    \/ test_after_restart_restart
    \/ test_after_restart_wait
    \/ test_exercise
    \/ next_process

Spec == Init /\ [][Next]_vars

(* ------------------------------------- the inspector on outputs of any shape *)

\* Every output of at most MaxOut words.
Outputs == UNION {[1..n -> Words] : n \in 0..MaxOut}

\* The registry an inspection may find: empty, or holding an earlier entry.
Priors == {<<>>, <<"scylla-bar">>}

InitInspector ==
    /\ pc = "inspector"
    /\ outcome = Running
    /\ registry \in Priors
    /\ initialized = FALSE
    /\ backend = "None"
    /\ mode = "ci"
    /\ ami = FALSE
    /\ detected = NoDistro
    /\ installer = "None"
    /\ ran = FALSE
    /\ pkgs = <<>>
    /\ idx = 0
    /\ devlist = FALSE
    /\ trace = <<>>
    /\ marker_seen = FALSE
    /\ lifecycle = <<>>
    /\ \E out \in Outputs : op = [NoOp EXCEPT !.result = [ok |-> TRUE, out |-> out]]
    /\ setup_done = FALSE
    /\ uuid_file = FALSE
    /\ mark_file = FALSE
    /\ reports = 0

\* _search_scriptlet_failure(result) on the result drawn.
inspect ==
    /\ pc = "inspector"
    /\ registry' = search_scriptlet_failure(registry, op.result.out)
    /\ op' = [op EXCEPT !.name = "_search_scriptlet_failure", !.reg0 = registry]
    /\ pc' = "inspected"
    /\ UNCHANGED <<outcome, manager, chosen, ran, host, pkgs, idx, devlist, log>>

NextInspector == inspect

SpecInspector == InitInspector /\ [][NextInspector]_vars

(* ------------------------- the lifecycle operations called in any sequence *)

\* The calls a sequence is made of, at most.
MaxCalls == 3

\* A service manager on a host whose units have any status.
InitLifecycle ==
    /\ pc = "lifecycle"
    /\ outcome = Running
    /\ registry = <<>>
    /\ initialized = FALSE
    /\ backend = "None"
    /\ mode = "ci"
    /\ ami = FALSE
    /\ detected = NoDistro
    /\ installer = "None"
    /\ ran = FALSE
    /\ pkgs = <<>>
    /\ idx = 0
    /\ devlist = FALSE
    /\ trace = <<>>
    /\ marker_seen = FALSE
    /\ \E st \in Statuses : lifecycle = << <<"", st>> >>
    /\ op = NoOp
    /\ setup_done = FALSE
    /\ uuid_file = FALSE
    /\ mark_file = FALSE
    /\ reports = 0

call_start_services ==
    /\ Len(lifecycle) <= MaxCalls
    /\ \E st \in Statuses :
         Lifecycle("lifecycle", "lifecycle", "start_services", st, start_services(st))
    /\ UNCHANGED trace

call_stop_services ==
    /\ Len(lifecycle) <= MaxCalls
    /\ \E st \in Statuses :
         Lifecycle("lifecycle", "lifecycle", "stop_services", st, stop_services(st))
    /\ UNCHANGED trace

call_restart_services ==
    /\ Len(lifecycle) <= MaxCalls
    /\ \E st \in Statuses :
         Lifecycle("lifecycle", "lifecycle", "restart_services", st,
                   restart_services(st))
    /\ UNCHANGED trace

NextLifecycle ==
    \/ call_start_services
    \/ call_stop_services
    \/ call_restart_services

SpecLifecycle == InitLifecycle /\ [][NextLifecycle]_vars

(* ----------------------------------------------------------------- claims *)

\* The platform a detected triple is, by the table of supported platforms.
Platform(d) ==
    CASE d.name \in {"Ubuntu", "ubuntu"} /\ d.version = "14" /\ d.release = "04" -> "Ubuntu 14.04"
      [] d.name \in {"Ubuntu", "ubuntu"} /\ d.version = "16" /\ d.release = "04" -> "Ubuntu 16.04"
      [] d.name \in {"Debian", "debian"} /\ d.version = "8" -> "Debian 8"
      [] d.name \in {"Fedora", "fedora"} /\ d.version = "22" -> "Fedora 22"
      [] d.name \in {"CentOS", "centos"} /\ d.version = "7" -> "CentOS 7"
      [] OTHER -> "none"

VariantOf ==
    [p \in {"Ubuntu 14.04", "Ubuntu 16.04", "Debian 8", "Fedora 22", "CentOS 7"} |->
        CASE p = "Ubuntu 14.04" -> "ScyllaInstallUbuntu1404"
          [] p = "Ubuntu 16.04" -> "ScyllaInstallUbuntu1604"
          [] p = "Debian 8"     -> "ScyllaInstallDebian8"
          [] p = "Fedora 22"    -> "ScyllaInstallFedora22"
          [] p = "CentOS 7"     -> "ScyllaInstallCentOS7"]

\* scylla_setup has made its choice in this process.
Dispatched == detected # NoDistro

\* C1: when ami is false and the detected triple is none of the supported
\* platforms, scylla_setup ends the test with the "Unsupported OS" skip: no
\* installer exists, no run() is entered and the sentinel is not created.
C1_UnsupportedPlatformAborts ==
    (Dispatched /\ ~ami /\ Platform(detected) = "none") =>
        /\ pc = "end"
        /\ outcome = Raise("TestSkipError", "Unsupported OS")
        /\ installer = "None"
        /\ ~ran
        /\ ~setup_done

C1_Witness ==
    /\ pc = "end"
    /\ ~ami
    /\ detected = [name |-> "Ubuntu", version |-> "14", release |-> "10"]
    /\ outcome.kind = "TestSkipError"

\* C2: for a supported combination the installer is the AMI variant when ami is
\* true, whatever the triple, and otherwise the variant of the platform; it is a
\* function of the triple and the flag alone.
C2_SelectsTheVariant ==
    (Dispatched /\ (ami \/ Platform(detected) # "none")) =>
        installer = IF ami THEN "ScyllaInstallAMI" ELSE VariantOf[Platform(detected)]

C2_Witness ==
    /\ Dispatched
    /\ ami
    /\ Platform(detected) = "Fedora 22"
    /\ installer = "ScyllaInstallAMI"
    /\ mode = "release"

\* C3: start_services issues one start per unit in list order, stop_services
\* one stop per unit in reverse list order, restart_services one restart per
\* unit in list order, and nothing more.
C3_CommandsInOrder ==
    /\ op.name = "start_services" =>
         op.issued = << <<"start", "scylla-server">>, <<"start", "scylla-jmx">> >>
    /\ op.name = "stop_services" =>
         op.issued = << <<"stop", "scylla-jmx">>, <<"stop", "scylla-server">> >>
    /\ op.name = "restart_services" =>
         op.issued = << <<"restart", "scylla-server">>, <<"restart", "scylla-jmx">> >>

C3_Witness ==
    /\ op.name = "stop_services"
    /\ Len(op.issued) = 2
    /\ op.issued[1][2] = "scylla-jmx"

\* Every unit was checked by the last operation and reported `v`.
AllReported(v) ==
    /\ \A u \in Units : \E i \in 1..Len(op.checks) : op.checks[i] = <<u, v>>
    /\ \A i \in 1..Len(op.checks) : op.checks[i][2] = v

\* C4: when start_services or restart_services returns normally every unit
\* reported active in its check, and when stop_services returns normally every
\* unit reported not active; none returns after a check that contradicted it.
C4_SuccessMeansTargetStatus ==
    /\ (op.name \in {"start_services", "restart_services"} /\ pc # "end") =>
         AllReported(TRUE)
    /\ (op.name = "stop_services" /\ pc # "end") => AllReported(FALSE)

C4_Witness ==
    /\ op.name = "stop_services"
    /\ pc = "stop_start"
    /\ Len(op.checks) = 2

ErrorOf ==
    [n \in {"start_services", "stop_services", "restart_services"} |->
        CASE n = "start_services" -> "StartServiceError"
          [] n = "stop_services"  -> "StopServiceError"
          [] n = "restart_services" -> "RestartServiceError"]

\* C5: a lifecycle operation that fails raises the error of its own kind, after
\* its command went to every unit, naming the first unit in list order whose
\* check contradicted the target status.
C5_OwnErrorNamesFirstUnit ==
    (op.name \in DOMAIN ErrorOf /\ pc = "end") =>
        LET want == (op.name # "stop_services")
        IN  /\ outcome.kind = ErrorOf[op.name]
            /\ Len(op.issued) = Len(services)
            /\ {op.issued[i][2] : i \in 1..Len(op.issued)} = Units
            /\ \E i \in 1..Len(services) :
                 /\ Len(op.checks) = i
                 /\ op.checks[i] = <<services[i], ~want>>
                 /\ outcome.arg = services[i]
                 /\ \A j \in 1..(i - 1) : op.checks[j] = <<services[j], want>>

C5_Witness ==
    /\ op.name = "restart_services"
    /\ pc = "end"
    /\ outcome = Raise("RestartServiceError", "scylla-jmx")

WaitPcs == {"run_wait", "stop_start_wait", "restart_wait"}

\* wait_services_up has returned normally.
WaitReturned == op.name = "wait_services_up" /\ pc \notin WaitPcs \cup {"end"}

\* C6: wait_services_up returns normally only at a poll where every unit is
\* active and port 9042 is taken.
C6_ReadyMeansUnitsActiveAndPortTaken ==
    WaitReturned => (~op.seen.port_free /\ \A u \in Units : op.seen.st[u])

\* C7: wait_services_up ends: it polls no more often than the timeout admits,
\* and when the last poll the timeout admits still finds the predicate false it
\* raises StartServiceError, and it raises nothing else.
C7_WaitEndsOrRaises ==
    op.name = "wait_services_up" =>
        /\ op.polls <= MaxPolls
        /\ pc \in WaitPcs => op.polls < MaxPolls
        /\ (op.polls = MaxPolls /\ ~scylla_service_is_up(op.seen)) =>
             (pc = "end" /\ outcome.kind = "StartServiceError")
        /\ pc = "end" => outcome.kind = "StartServiceError"

C7_Witness ==
    /\ op.name = "wait_services_up"
    /\ op.polls = MaxPolls
    /\ pc = "end"
    /\ outcome.kind = "StartServiceError"

\* The lines of an output.
RECURSIVE SplitLines(_, _)
SplitLines(out, line) ==
    IF out = <<>> THEN <<line>>
    ELSE IF Head(out) = NL THEN <<line>> \o SplitLines(Tail(out), <<>>)
    ELSE SplitLines(Tail(out), Append(line, Head(out)))

\* The line holds the marker followed by a package of the scylla family.
Marked(line) ==
    \E i \in 1..(Len(line) - 1) : line[i] = MARKER /\ line[i + 1] \in ScyllaWords

FinalWord(line) ==
    IF line[Len(line)] = MARKER THEN "package" ELSE line[Len(line)]

\* One entry for each marked line: the final word of the line.
RECURSIVE EntriesOf(_)
EntriesOf(lines) ==
    IF lines = <<>> THEN <<>>
    ELSE (IF Marked(Head(lines)) THEN <<FinalWord(Head(lines))>> ELSE <<>>)
         \o EntriesOf(Tail(lines))

ExpectedEntries(out) == EntriesOf(SplitLines(out, <<>>))

\* The package named by each occurrence of the marker, in order.
RECURSIVE NamedPackages(_)
NamedPackages(out) ==
    IF Len(out) < 2 THEN <<>>
    ELSE (IF out[1] = MARKER /\ out[2] \in ScyllaWords THEN <<out[2]>> ELSE <<>>)
         \o NamedPackages(Tail(out))

\* C8, as claimed: the inspector appends the named package once for each
\* occurrence of the marker, on one line or several, with or without text after
\* the package name.
C8_OneEntryPerOccurrence ==
    pc = "inspected" => registry = op.reg0 \o NamedPackages(op.result.out)

\* C8, amended: the inspector appends one entry for each line that holds the
\* marker, the final word of that line; an output without the marker leaves the
\* registry as it was.
C8_OneEntryPerMarkedLine ==
    pc = "inspected" =>
        /\ registry = op.reg0 \o ExpectedEntries(op.result.out)
        /\ NamedPackages(op.result.out) = <<>> => registry = op.reg0

C8_Witness ==
    /\ pc = "inspected"
    /\ op.reg0 = <<"scylla-bar">>
    /\ op.result.out = <<MARKER, "scylla-foo", NL, MARKER, "scylla-foo">>
    /\ registry = <<"scylla-bar", "scylla-foo", "scylla-foo">>

\* C9: install returns true exactly when its command exits successfully, also
\* when the inspector recorded a failure from its output, and raises nothing:
\* the only error after it is the InstallPackageError of run().
C9_InstallReturnsExitStatus ==
    op.name = "install" =>
        /\ op.ret <=> op.result.ok
        /\ pc = "end" <=> ~op.result.ok
        /\ pc = "end" => outcome.kind = "InstallPackageError"

C9_Witness ==
    /\ op.name = "install"
    /\ op.ret
    /\ op.result.ok
    /\ registry # op.reg0

IsPrefix(s, t) == Len(s) <= Len(t) /\ SubSeq(t, 1, Len(s)) = s

\* C11: the registry is empty when a process starts, and within the process
\* every step of an install, a lifecycle operation or a test leaves a registry
\* that extends the one before: no entry is removed, reordered or cleared.
C11_RegistryAppendOnly ==
    /\ [](pc = "setUp" => registry = <<>>)
    /\ [][pc # "end" => IsPrefix(registry, registry')]_vars

C11_Witness ==
    /\ op.name = "stop_services"
    /\ Len(registry) = 2
    /\ trace # <<>>

\* test_after_install has come to its closing check: nodetool and
\* cassandra-stress went through.
ClosingCheckMade ==
    /\ op.name = "test_after_install"
    /\ outcome.arg \notin {"nodetool", "cassandra-stress"}

Backends == {backend_mapping[t] : t \in DOMAIN backend_mapping}

\* C13: the manager is resolved at its first use and not before; once it is
\* initialized a backend is set, and every later use of the manager in the
\* process goes to that backend, without inspecting the host again.
C13_BackendResolvedOnce ==
    /\ [](pc \in {"setUp", "scylla_setup", "installer_run"} => ~initialized)
    /\ [](initialized => backend \in Backends)
    /\ [][(initialized /\ pc # "end") =>
            (initialized' /\ backend' = backend /\ ~op'.inspected)]_vars

C13_Witness ==
    /\ op.name = "install"
    /\ idx >= 3
    /\ initialized
    /\ ~op.inspected
    /\ backend = "ScyllaAptBackend"

\* C14: when the tool the host has is none of apt-get, yum, dnf and zypper, the
\* resolution raises NotImplementedError naming the tool: no backend is set,
\* the manager stays uninitialized, and the call that asked for the backend
\* runs no package command.
C14_UnknownToolIsHardError ==
    (op.name = "_init_on_demand" /\ op.tool \notin DOMAIN backend_mapping) =>
        /\ pc = "end"
        /\ outcome = Raise("NotImplementedError", op.tool)
        /\ backend = "None"
        /\ ~initialized
        /\ trace = <<>>
        /\ pkgs = <<>>
        /\ registry = <<>>

C14_Witness ==
    /\ op.name = "_init_on_demand"
    /\ op.tool = "unknown"
    /\ op.inspected
    /\ outcome.kind = "NotImplementedError"

\* The steps of run() in the order claimed, for the packages ps.
Canonical(ps) ==
    <<Step("upgrade", ""), Step("get_packages", "")>>
    \o [i \in 1..Len(ps) |-> Step("install", ps[i])]
    \o <<Step("scylla_setup", ""), Step("start_services", ""),
         Step("wait_services_up", ""), Step("try_report_uuid", ""),
         Step("verify", "")>>

\* The place in Canonical(pkgs) of the step an operation of run() makes.
Index ==
    [n \in {"upgrade", "get_packages", "scylla_setup_cmd", "start_services",
            "wait_services_up", "try_report_uuid", "verify"} |->
        CASE n = "upgrade"          -> 1
          [] n = "get_packages"     -> 2
          [] n = "scylla_setup_cmd" -> 3 + Len(pkgs)
          [] n = "start_services"   -> 4 + Len(pkgs)
          [] n = "wait_services_up" -> 5 + Len(pkgs)
          [] n = "try_report_uuid"  -> 6 + Len(pkgs)
          [] n = "verify"           -> 7 + Len(pkgs)]

\* The wait of step n has not ended: it is to poll again.
Polling(n) ==
    \/ n = "upgrade" /\ pc = "run_upgrade"
    \/ n = "wait_services_up" /\ pc = "run_wait"

\* The last operation was made by run() of a non-AMI installer.
InRun ==
    /\ ran
    /\ installer # "ScyllaInstallAMI"
    /\ Len(trace) < 7 + Len(pkgs) \/ op.name = "verify"

\* C15: the steps of run() return in the order upgrade wait, package list,
\* one install per package, host configuration, start_services,
\* wait_services_up, identifier report, verification; a step begins only when
\* all the steps before it have returned, services are started only after
\* every package of the list was installed, and the verification is made only
\* after wait_services_up returned.
C15_StepsInOrder ==
    /\ IsPrefix(trace, Canonical(pkgs))
    /\ \A n \in DOMAIN Index :
         (InRun /\ op.name = n) =>
             /\ Len(trace) \in {Index[n] - 1, Index[n]}
             /\ Len(trace) = Index[n] <=> (pc # "end" /\ ~Polling(n))
    /\ (InRun /\ op.name = "install") => Len(trace) = 1 + idx
    /\ (InRun /\ op.name = "start_services") =>
         \A i \in 1..Len(pkgs) : trace[2 + i] = Step("install", pkgs[i])
    /\ op.name = "verify" =>
         \E i \in 1..Len(trace) : trace[i] = Step("wait_services_up", "")

C15_Witness ==
    /\ op.name = "verify"
    /\ pc = "run_done"
    /\ Len(pkgs) = 3
    /\ trace = Canonical(pkgs)

\* C16: the first install() of run() that returns false ends the run with
\* InstallPackageError naming its package: the steps that returned are the
\* upgrade wait, the package list and the installs before it, so that no later
\* package is installed, no host configuration is run, no service started and
\* no check made; and the sentinel is not created, then or later in the
\* process.
C16_FailedInstallAbortsRun ==
    /\ []((op.name = "install" /\ ~op.ret) =>
            /\ pc = "end"
            /\ outcome = Raise("InstallPackageError", pkgs[idx])
            /\ trace = SubSeq(Canonical(pkgs), 1, 1 + idx)
            /\ ~setup_done)
    /\ [][(op.name = "install" /\ ~op.ret) => (~setup_done' /\ pc' = "setUp")]_vars

C16_Witness ==
    /\ op.name = "install"
    /\ ~op.ret
    /\ idx = 2
    /\ outcome = Raise("InstallPackageError", "scylla-jmx")
    /\ registry # <<>>

\* C17, as claimed: each bounded wait raises when its predicate never became
\* true before the timeout: run() ends when upgrade() was false at every poll
\* of the upgrade wait, upgrade() of the APT backend ends with an error when
\* the index never refreshed, run() ends when the identifier file never
\* appeared, and wait_services_up ends with StartServiceError.
C17_EveryWaitRaisesOnTimeout ==
    /\ (op.name = "upgrade" /\ op.polls = MaxPolls /\ ~op.ret) => pc = "end"
    /\ (op.name = "upgrade" /\ backend = "ScyllaAptBackend" /\ ~op.refreshed) =>
         pc = "end"
    /\ (op.name = "try_report_uuid" /\ ~uuid_file) => pc = "end"
    /\ (op.name = "wait_services_up" /\ op.polls = MaxPolls
          /\ ~scylla_service_is_up(op.seen)) =>
         (pc = "end" /\ outcome.kind = "StartServiceError")

\* C18, as claimed: upgrade() of the APT backend makes no more refresh attempts
\* than the bound admits, runs the full-system upgrade command when it has no
\* name, and does not return true when the index never refreshed.
C18_AptUpgradeFailsWithoutRefresh ==
    (op.name = "upgrade" /\ backend = "ScyllaAptBackend") =>
        /\ op.attempts \in 1..MaxPolls
        /\ op.cmd = <<"apt-get", "upgrade">>
        /\ ~op.refreshed => ~op.ret

\* C19, as claimed: on one host the identifier is reported at most once.
C19_ReportedAtMostOnce == reports <= 1

\* The setup of this process ended with an exception.
SetupRaised == pc = "end" /\ Dispatched /\ trace # Canonical(pkgs)

\* C20: setUp goes to scylla_setup exactly when the sentinel does not exist;
\* the sentinel is created only when run() has returned normally, and never
\* removed; with the sentinel there a process makes no installation; and a
\* setup that raised leaves no sentinel, so that the next setUp sets up again.
C20_SentinelGuardsSetup ==
    /\ [](op.name = "setUp" =>
            /\ pc = "scylla_setup" <=> ~setup_done
            /\ pc = "test" <=> setup_done)
    /\ [][setup_done' # setup_done =>
            (setup_done' /\ pc = "run_done" /\ trace = Canonical(pkgs))]_vars
    /\ []((setup_done /\ pc # "end" /\ trace # Canonical(pkgs)) =>
            (~ran /\ ~Dispatched /\ trace = <<>>))
    /\ [](SetupRaised => ~setup_done)
    /\ [][(SetupRaised /\ op'.name = "setUp") => pc' = "scylla_setup"]_vars

C20_Witness ==
    /\ op.name = "setUp"
    /\ setup_done
    /\ pc = "test"
    /\ ~ran
    /\ reports = 1

RaidOptions == {"--disks", "--no-raid-setup"}

\* C21: the host-configuration command of run() carries --disks when a second
\* disk was found and /var/lib/scylla is not a mount point, and
\* --no-raid-setup in every other case: one of the two, never both and never
\* neither.
C21_OneRaidOption ==
    op.name = "scylla_setup_cmd" =>
        /\ Cardinality(op.opts \cap RaidOptions) = 1
        /\ "--disks" \in op.opts <=> (devlist /\ ~op.ismount)
        /\ "--no-raid-setup" \in op.opts <=> (~devlist \/ op.ismount)

C21_Witness ==
    /\ op.name = "scylla_setup_cmd"
    /\ devlist
    /\ op.ismount
    /\ op.opts = {"--nic", "--no-raid-setup", "--no-node-exporter"}
    /\ pc = "run_start"

\* The last operation made the check named c.
Evaluated(c) == \E i \in 1..Len(op.checks) : op.checks[i][1] = c

\* C22: when no second disk was found the mount check is not made, so that a
\* data directory that is no mount point cannot fail the run; when one was
\* found run() returns normally only with /var/lib/scylla a mount point at the
\* time of the check.
C22_MountCheckFollowsDevice ==
    op.name = "verify" =>
        /\ ~devlist => (~Evaluated("mount") /\ outcome.arg # "mount")
        /\ (devlist /\ pc = "run_done") =>
             (Evaluated("mount") /\ "mount" \in op.passes)

C22_Witness ==
    /\ op.name = "verify"
    /\ ~devlist
    /\ "mount" \notin op.passes
    /\ pc = "run_done"

\* The checks due on this host, in the order claimed: the security policy on
\* the distributions that are not of the Debian family, the monitoring agent,
\* the mount point when a second disk was found, the time daemon, the coredump
\* configuration and the service status.
Due ==
    (IF detected.name \in {"Ubuntu", "debian"} THEN <<>> ELSE <<"selinux">>)
    \o <<"node_exporter">>
    \o (IF devlist THEN <<"mount">> ELSE <<>>)
    \o <<"ntp", "coredump", "service">>

\* C23: the verification of run() succeeds exactly when the host passes every
\* check that is due; the checks are made in the fixed order, and the first
\* one that fails ends the run as its reported cause, no later check being
\* made.
C23_FirstFailingCheckEndsRun ==
    op.name = "verify" =>
        /\ pc = "run_done" <=> \A i \in 1..Len(Due) : Due[i] \in op.passes
        /\ Len(op.checks) <= Len(Due)
        /\ \A i \in 1..Len(op.checks) :
             op.checks[i] = <<Due[i], Due[i] \in op.passes>>
        /\ \A i \in 1..(Len(op.checks) - 1) : op.checks[i][2]
        /\ pc = "run_done" => Len(op.checks) = Len(Due)
        /\ pc = "end" =>
             /\ ~op.checks[Len(op.checks)][2]
             /\ outcome.arg = op.checks[Len(op.checks)][1]

C23_Witness ==
    /\ op.name = "verify"
    /\ pc = "end"
    /\ devlist
    /\ op.passes = {"selinux", "node_exporter", "mount", "coredump"}
    /\ Len(op.checks) = 4
    /\ outcome = Raise("CmdError", "ntp")

\* The driver claimed for each instance type.
ClaimedDriver(i) ==
    CASE i.maintype \in {"i3", "p2", "r4", "x1"} -> "ena"
      [] i.maintype = "m4" /\ i.subtype = "16xlarge" -> "ena"
      [] i.maintype \in {"c3", "c4", "d2", "i2", "r3"} -> "ixgbevf"
      [] i.maintype = "m4" /\ i.subtype # "16xlarge" -> "ixgbevf"
      [] OTHER -> ""

\* C24, as claimed: run() of the AMI variant makes no package operation, runs
\* no host configuration and starts no service; the network validation goes
\* through only with the driver claimed for the instance type, or for a type
\* that has none; and when it went through, run() goes on to wait for the
\* services.
C24_AmiValidatesThenWaits ==
    op.name = "enhanced_net_enabled" =>
        /\ trace = <<>>
        /\ ~initialized
        /\ registry = <<>>
        /\ op.validated =>
             (ClaimedDriver(op.instance) \in {"", op.driver})
        /\ op.validated => pc # "end"

\* The last lifecycle operation returned normally.
LastReturned == lifecycle # <<>> /\ op.name = lifecycle[Len(lifecycle)][1] /\ pc # "end"

\* The operation called before the last one, "" when there was none.
Before == IF Len(lifecycle) >= 2 THEN lifecycle[Len(lifecycle) - 1][1] ELSE ""

\* The status the last operation's commands left the units in.
FinalStatus == lifecycle[Len(lifecycle)][2]

\* C25: whatever status the units had, a stop_services that returns normally
\* after a start_services leaves every unit inactive, and a start_services that
\* returns normally after a stop_services leaves every unit active.
C25_LifecycleInverses ==
    LastReturned =>
        /\ (op.name = "stop_services" /\ Before = "start_services")
              => \A u \in Units : ~FinalStatus[u]
        /\ (op.name = "start_services" /\ Before = "stop_services")
              => \A u \in Units : FinalStatus[u]

\* C25 happens: on a host whose units were not all active, start_services was
\* called and then stop_services, and stop_services then start_services, each
\* second call returning normally.
C25_Witness ==
    /\ Len(lifecycle) = 4
    /\ LastReturned
    /\ lifecycle[1][2] # [u \in Units |-> TRUE]
    /\ lifecycle[2][1] = "start_services"
    /\ lifecycle[3][1] = "stop_services"
    /\ lifecycle[4][1] = "start_services"
    /\ \A u \in Units : ~lifecycle[3][2][u]

\* a >= b segment by segment, a missing segment counting as zero.
RECURSIVE SegmentsAtLeast(_, _)
SegmentsAtLeast(a, b) ==
    IF a = <<>> /\ b = <<>> THEN TRUE
    ELSE LET x == IF a = <<>> THEN 0 ELSE Head(a)
             y == IF b = <<>> THEN 0 ELSE Head(b)
         IN  IF x # y THEN x > y
             ELSE SegmentsAtLeast(IF a = <<>> THEN a ELSE Tail(a),
                                  IF b = <<>> THEN b ELSE Tail(b))

\* The package resolution of a gated variant has returned.
GatedReturned == op.name = "get_packages" /\ installer \in Gated /\ pc = "run_install"

\* C26, as claimed: on Ubuntu 14.04 and Debian 8 the JRE 8 provisioning
\* commands run exactly when the numbers of the resolved version are at or
\* above 1.7 segment by segment; with or without them the resolution ends with
\* the upgrade and returns the package list.
C26_GateIsSegmentWise ==
    GatedReturned =>
        /\ op.provisioned <=> SegmentsAtLeast(release(op.ver), <<1, 7>>)
        /\ ("jre8" \in {op.steps[i] : i \in 1..Len(op.steps)}) <=> op.provisioned
        /\ op.steps[Len(op.steps)] = "upgrade"
        /\ pkgs # <<>>

\* C27, as claimed: the package resolution of every variant that installs
\* returns at least one package, whatever the mode, so that the host is
\* configured after a package was installed.
C27_PackageListNonEmpty ==
    /\ (op.name = "get_packages" /\ pc = "run_install") => pkgs # <<>>
    /\ op.name = "scylla_setup_cmd" =>
         \E i \in 1..Len(trace) : trace[i][1] = "install"

====
